---- MODULE Spec2Model ----
(***************************************************************************)
(* Model of json_handling.py: load_json_objects_from_folder (the NDJSON    *)
(* loader) and extract_dataframes (the normaliser that splits each order   *)
(* into seven tables).                                                     *)
(*                                                                         *)
(* A JSON value is a record [k, s, d]: k is the Python type of the value   *)
(* ("null", "num", "str", "bool", "list", "dict"), s the text of a scalar, *)
(* and d the items of a dict as a sequence of <<key, value>> pairs in      *)
(* insertion order (Python dicts keep insertion order; a DataFrame's       *)
(* column order depends on it).  Lists occur only empty in the inputs.     *)
(* A table (DataFrame built from a list of records) is the sequence of its *)
(* rows; a row is [src, rec]: rec the record dict, src the position in     *)
(* `orders` of the loop iteration that appended it.                        *)
(***************************************************************************)
EXTENDS Integers, Sequences, FiniteSets, TLC

VARIABLES data0, data, pc, call, tables, first,
          files, fidx, lines, lidx, all_data, diag, lpc

vars == <<data0, data, pc, call, tables, first,
          files, fidx, lines, lidx, all_data, diag, lpc>>

xvars == <<data0, data, pc, call, tables, first>>
lvars == <<files, fidx, lines, lidx, all_data, diag, lpc>>

(***************************************************************************)
(* Bounds                                                                  *)
(***************************************************************************)
MaxRecords == 2
MaxLen == 5

(***************************************************************************)
(* JSON values and the Python dict operations the code uses                *)
(***************************************************************************)
Null == [k |-> "null", s |-> "", d |-> <<>>]
Num(x) == [k |-> "num", s |-> x, d |-> <<>>]
Str(x) == [k |-> "str", s |-> x, d |-> <<>>]
Bool(x) == [k |-> "bool", s |-> x, d |-> <<>>]
EmptyList == [k |-> "list", s |-> "", d |-> <<>>]
Dict(pairs) == [k |-> "dict", s |-> "", d |-> pairs]
EmptyDict == Dict(<<>>)

\* isinstance(v, dict)
IsDict(v) == v.k = "dict"

\* key in v
Has(v, key) == \E i \in 1..Len(v.d) : v.d[i][1] = key

\* v.get(key, default)
Get(v, key, default) ==
    IF Has(v, key)
    THEN v.d[CHOOSE i \in 1..Len(v.d) : v.d[i][1] = key][2]
    ELSE default

\* v.pop(key, None): the dict without the key
Pop(v, key) == [v EXCEPT !.d = SelectSeq(v.d, LAMBDA p : p[1] # key)]

\* v[key] = val: an existing key keeps its position, a new key is appended
SetItem(v, key, val) ==
    IF Has(v, key)
    THEN [v EXCEPT !.d = [i \in 1..Len(v.d) |->
                            IF v.d[i][1] = key THEN <<key, val>> ELSE v.d[i]]]
    ELSE [v EXCEPT !.d = Append(v.d, <<key, val>>)]

\* v.update(w), for w whose items are key/value pairs
RECURSIVE UpdateFrom(_, _, _)
UpdateFrom(v, items, j) ==
    IF j > Len(items) THEN v
    ELSE UpdateFrom(SetItem(v, items[j][1], items[j][2]), items, j + 1)

Update(v, w) == UpdateFrom(v, w.d, 1)

\* dict.update(w) raises TypeError for None, numbers and booleans (not
\* iterable) and ValueError for a non-empty string (its elements are not
\* pairs); an empty string or an empty list updates nothing.
UpdateRaises(w) ==
    CASE w.k = "dict" -> FALSE
      [] w.k = "str" -> w.s # ""
      [] w.k = "list" -> Len(w.d) > 0
      [] OTHER -> TRUE

\* bool(v), as tested by `if params:`
Truthy(v) ==
    CASE v.k \in {"dict", "list"} -> Len(v.d) > 0
      [] v.k = "str" -> v.s # ""
      [] v.k = "num" -> v.s # "0"
      [] v.k = "bool" -> v.s = "true"
      [] OTHER -> FALSE

\* concatenation of a sequence of sequences
RECURSIVE Flat(_)
Flat(ss) == IF ss = <<>> THEN <<>> ELSE Head(ss) \o Flat(Tail(ss))

Row(i, r) == [src |-> i, rec |-> r]

(***************************************************************************)
(* extract_dataframes: source projection and sanitization                  *)
(***************************************************************************)
\* the positions of the input objects that have a "_source" key
SourceIdx(ds) == SelectSeq([i \in 1..Len(ds) |-> i],
                           LAMBDA i : Has(ds[i], "_source"))

\* orders = [d["_source"] for d in data if "_source" in d]
OrdersOf(ds) == [n \in 1..Len(SourceIdx(ds)) |->
                    Get(ds[SourceIdx(ds)[n]], "_source", Null)]

\* `orders` holds references to the objects inside `data`: the input as it
\* stands once the orders have the values ords
PutOrders(ds, ords) ==
    [i \in 1..Len(ds) |->
        IF Has(ds[i], "_source")
        THEN SetItem(ds[i], "_source",
                     ords[CHOOSE n \in 1..Len(SourceIdx(ds)) :
                            SourceIdx(ds)[n] = i])
        ELSE ds[i]]

\* order.get("order_id")
OrderId(order) == Get(order, "order_id", Null)

\* the body of the sanitization loop for one order
Sanitize(order) ==
    IF Has(order, "search_data") /\ IsDict(Get(order, "search_data", Null))
    THEN SetItem(order, "search_data",
                 Pop(Get(order, "search_data", Null), "meta_click_info"))
    ELSE order

SanitizeStep(ords) ==
    [orders |-> [i \in 1..Len(ords) |-> Sanitize(ords[i])],
     rows |-> <<>>, raised |-> FALSE]

(***************************************************************************)
(* 1. orders table: pd.json_normalize and the column drop                  *)
(***************************************************************************)
\* A column name is the sequence of the atoms of its text; "." is an atom.
\* The one key of the inputs that contains a dot is split here.
Atoms(key) ==
    IF key = "payment_details.x" THEN <<"payment_details", ".", "x">>
    ELSE <<key>>

\* pandas _normalise_json: dot-joined paths of the leaves of a nested dict
RECURSIVE NormaliseJson(_, _, _), NormaliseItems(_, _, _, _)
NormaliseJson(v, key_string, acc) ==
    IF IsDict(v) THEN NormaliseItems(v.d, 1, key_string, acc)
    ELSE SetItem(acc, key_string, v)

NormaliseItems(items, j, key_string, acc) ==
    IF j > Len(items) THEN acc
    ELSE LET new_key == IF key_string = <<>> THEN Atoms(items[j][1])
                        ELSE key_string \o <<".">> \o Atoms(items[j][1])
         IN NormaliseItems(items, j + 1, key_string,
                           NormaliseJson(items[j][2], new_key, acc))

\* pandas _normalise_json_ordered: the top-level non-dict values first, then
\* the flattened nested dicts
NormaliseOrdered(order) ==
    LET top == SelectSeq(order.d, LAMBDA p : ~IsDict(p[2]))
        nested == SelectSeq(order.d, LAMBDA p : IsDict(p[2]))
        top_dict == Dict([j \in 1..Len(top) |-> <<Atoms(top[j][1]), top[j][2]>>])
    IN Update(top_dict, NormaliseJson(Dict(nested), <<>>, EmptyDict))

nested_keys == <<"payment_details", "orderlines", "shown_addons", "search_data">>

\* col.startswith(f"{key}.")
StartsWithKey(col, key) ==
    LET prefix == Atoms(key) \o <<".">>
    IN Len(col) >= Len(prefix) /\ SubSeq(col, 1, Len(prefix)) = prefix

\* df.columns: the union of the keys of the rows
ColumnsOf(table) ==
    UNION {{table[i].rec.d[j][1] : j \in 1..Len(table[i].rec.d)} :
              i \in 1..Len(table)}

\* the test written col.startswith(key), without the separator
cols_to_dropNoSeparator(cols) ==
    {col \in cols : \E n \in 1..Len(nested_keys) :
                        SubSeq(col, 1, 1) = Atoms(nested_keys[n])}

cols_to_drop(cols) ==
    {col \in cols : \E n \in 1..Len(nested_keys) :
                        StartsWithKey(col, nested_keys[n])}

OrdersStep(ords) ==
    LET flat == [i \in 1..Len(ords) |-> Row(i, NormaliseOrdered(ords[i]))]
        drop == cols_to_drop(ColumnsOf(flat))
    IN [orders |-> ords, raised |-> FALSE,
        rows |-> [i \in 1..Len(flat) |->
                    Row(i, [flat[i].rec EXCEPT
                              !.d = SelectSeq(@, LAMBDA p : p[1] \notin drop)])]]

(***************************************************************************)
(* 2. payment_details table                                                *)
(***************************************************************************)
PaymentRecord(order) ==
    LET record == Dict(<< <<"order_id", OrderId(order)>> >>)
    IN IF IsDict(Get(order, "payment_details", Null))
       THEN Update(record, Get(order, "payment_details", Null))
       ELSE record

\* the row appended only under the isinstance test
PaymentRowsGuarded(i, order) ==
    IF IsDict(Get(order, "payment_details", Null))
    THEN << Row(i, PaymentRecord(order)) >>
    ELSE <<>>

PaymentRows(i, order) == << Row(i, PaymentRecord(order)) >>

PaymentStep(ords) ==
    [orders |-> ords, raised |-> FALSE,
     rows |-> Flat([i \in 1..Len(ords) |-> PaymentRows(i, ords[i])])]

(***************************************************************************)
(* 3. orderlines table                                                     *)
(***************************************************************************)
OrderlineRows(i, order) ==
    LET orderlines == Get(order, "orderlines", EmptyDict)
    IN IF IsDict(orderlines)
       THEN [j \in 1..Len(orderlines.d) |->
               Row(i, Update(Dict(<< <<"order_id", OrderId(order)>>,
                                     <<"orderline_type", Str(orderlines.d[j][1])>> >>),
                             orderlines.d[j][2]))]
       ELSE <<>>

\* rec.update(val) raises when val is not a mapping (or an empty iterable)
OrderlineRaises(order) ==
    LET orderlines == Get(order, "orderlines", EmptyDict)
    IN IsDict(orderlines) /\
       \E j \in 1..Len(orderlines.d) : UpdateRaises(orderlines.d[j][2])

OrderlinesStep(ords) ==
    [orders |-> ords,
     raised |-> \E i \in 1..Len(ords) : OrderlineRaises(ords[i]),
     rows |-> Flat([i \in 1..Len(ords) |-> OrderlineRows(i, ords[i])])]

(***************************************************************************)
(* 4. shown_addons table                                                   *)
(***************************************************************************)
ShownAddonsRows(i, order) ==
    LET addons == Get(order, "shown_addons", EmptyDict)
    IN IF IsDict(addons)
       THEN << Row(i, Update(Dict(<< <<"order_id", OrderId(order)>> >>), addons)) >>
       ELSE <<>>

ShownAddonsStep(ords) ==
    [orders |-> ords, raised |-> FALSE,
     rows |-> Flat([i \in 1..Len(ords) |-> ShownAddonsRows(i, ords[i])])]

(***************************************************************************)
(* 5. search_data table                                                    *)
(***************************************************************************)
SearchDataRows(i, order) ==
    LET search_data == Get(order, "search_data", EmptyDict)
    IN IF IsDict(search_data)
       THEN << Row(i, Pop(Pop(SetItem(search_data, "parent_order_id",
                                      OrderId(order)),
                              "orders"), "search_parameters")) >>
       ELSE <<>>

\* rec = search_data, without copy(): the writes to rec reach the order
SearchDataOrderNoCopy(order) ==
    IF Has(order, "search_data") /\ IsDict(Get(order, "search_data", Null))
    THEN SetItem(order, "search_data", SearchDataRows(1, order)[1].rec)
    ELSE order

\* rec is a copy: the order is left as it was
SearchDataOrder(order) == order

SearchDataStep(ords) ==
    [orders |-> [i \in 1..Len(ords) |-> SearchDataOrder(ords[i])],
     raised |-> FALSE,
     rows |-> Flat([i \in 1..Len(ords) |-> SearchDataRows(i, ords[i])])]

(***************************************************************************)
(* 6. search_orders table                                                  *)
(***************************************************************************)
\* search_data.get(...) raises AttributeError when search_data is present
\* and is not a dict (None, number, string, list)
SearchDataGetRaises(order) == ~IsDict(Get(order, "search_data", EmptyDict))

SearchOrdersRows(i, order) ==
    LET search_data == Get(order, "search_data", EmptyDict)
        search_orders == Get(search_data, "orders", EmptyDict)
    IN IF IsDict(search_orders)
       THEN [j \in 1..Len(search_orders.d) |->
               Row(i, Update(Dict(<< <<"parent_order_id", OrderId(order)>>,
                                     <<"search_order_key", Str(search_orders.d[j][1])>> >>),
                             search_orders.d[j][2]))]
       ELSE <<>>

SearchOrdersRaises(order) ==
    \/ SearchDataGetRaises(order)
    \/ LET search_orders == Get(Get(order, "search_data", EmptyDict),
                                "orders", EmptyDict)
       IN IsDict(search_orders) /\
          \E j \in 1..Len(search_orders.d) : UpdateRaises(search_orders.d[j][2])

SearchOrdersStep(ords) ==
    [orders |-> ords,
     raised |-> \E i \in 1..Len(ords) : SearchOrdersRaises(ords[i]),
     rows |-> Flat([i \in 1..Len(ords) |->
                      IF SearchDataGetRaises(ords[i]) THEN <<>>
                      ELSE SearchOrdersRows(i, ords[i])])]

(***************************************************************************)
(* 7. search_parameters table                                              *)
(***************************************************************************)
SearchParametersRows(i, order) ==
    LET params == Get(Get(order, "search_data", EmptyDict),
                      "search_parameters", EmptyDict)
    IN IF Truthy(params)
       THEN << Row(i, SetItem(params, "parent_order_id", OrderId(order))) >>
       ELSE <<>>

\* a truthy params that is not a dict has no copy() (number, string) or
\* takes no string index (list)
SearchParametersRaises(order) ==
    \/ SearchDataGetRaises(order)
    \/ LET params == Get(Get(order, "search_data", EmptyDict),
                         "search_parameters", EmptyDict)
       IN Truthy(params) /\ ~IsDict(params)

\* params taken with search_data.pop("search_parameters", {}) instead of get
SearchParametersOrderPop(order) ==
    IF Has(order, "search_data") /\ IsDict(Get(order, "search_data", Null))
    THEN SetItem(order, "search_data",
                 Pop(Get(order, "search_data", Null), "search_parameters"))
    ELSE order

\* rec is a copy: the order is left as it was
SearchParametersOrder(order) == order

SearchParametersStep(ords) ==
    [orders |-> [i \in 1..Len(ords) |-> SearchParametersOrder(ords[i])],
     raised |-> \E i \in 1..Len(ords) : SearchParametersRaises(ords[i]),
     rows |-> Flat([i \in 1..Len(ords) |->
                      IF SearchParametersRaises(ords[i]) THEN <<>>
                      ELSE SearchParametersRows(i, ords[i])])]

(***************************************************************************)
(* The inputs: sequences of at most MaxRecords loaded objects              *)
(***************************************************************************)
D1(k1, v1) == Dict(<< <<k1, v1>> >>)
D2(k1, v1, k2, v2) == Dict(<< <<k1, v1>>, <<k2, v2>> >>)

\* an order with the given order_id and one more key
Ord(id, key, val) == D2("order_id", Str(id), key, val)

\* the order of the scenario: payment details, one orderline, search data
\* with meta_click_info, one search order and search parameters
ScenarioOrder ==
    Dict(<< <<"order_id", Str("A1")>>,
            <<"payment_details", D1("method", Str("card"))>>,
            <<"orderlines", D1("l1", D1("sku", Str("X")))>>,
            <<"search_data",
              Dict(<< <<"meta_click_info", D1("x", Num("1"))>>,
                      <<"region", Str("EU")>>,
                      <<"orders", D1("s1", D1("k", Num("1")))>>,
                      <<"search_parameters", D1("q", Str("shoes"))>> >>)>> >>)

InputOrders ==
    { EmptyDict,
      ScenarioOrder,
      Dict(<< <<"order_id", Str("A2")>>, <<"total", Num("5")>>,
              <<"customer", D1("name", Str("n"))>>,
              <<"shown_addons", D1("wifi", Bool("true"))>>,
              <<"payment_details.x", Num("1")>> >>),
      Ord("A3", "payment_details", D2("order_id", Str("Z"), "method", Str("card"))),
      Ord("A4", "payment_details", Num("5")),
      D1("payment_details", Null),
      Ord("A5", "orderlines", D2("l1", D1("order_id", Str("Z")), "l2", D1("sku", Str("Y")))),
      Ord("A6", "orderlines", Num("5")),
      Ord("A7", "orderlines", D1("l1", Null)),
      Ord("A8", "orderlines", D2("l1", EmptyList, "l2", Str(""))),
      Ord("A9", "orderlines", EmptyDict),
      Ord("B1", "shown_addons", D2("order_id", Str("Z"), "wifi", Bool("false"))),
      Ord("B2", "shown_addons", Str("none")),
      Ord("B3", "shown_addons", EmptyDict),
      Ord("B4", "search_data", Null),
      Ord("B5", "search_data", EmptyList),
      Ord("B6", "search_data", Num("5")),
      Ord("B7", "search_data", EmptyDict),
      Ord("B8", "search_data", D2("parent_order_id", Str("Z"), "meta_click_info", Num("1"))),
      Ord("B9", "search_data", D1("orders", D1("s1", D1("parent_order_id", Str("Z"))))),
      Ord("E1", "search_data", D1("orders", Num("5"))),
      Ord("E2", "search_data", D1("orders", D1("s1", Num("5")))),
      Ord("E3", "search_data", D1("search_parameters", Num("5"))),
      Ord("E4", "search_data", D1("search_parameters", D2("parent_order_id", Str("Z"), "q", Str("a")))),
      Ord("E5", "search_data", D1("search_parameters", Null)),
      Ord("E6", "search_data", D1("search_parameters", EmptyDict)) }

\* a loaded object: one without a "_source" key, or one whose "_source" is
\* an order
Records == { D1("_index", Str("i")) } \cup { D1("_source", o) : o \in InputOrders }

RECURSIVE SeqsOf(_, _)
SeqsOf(S, n) ==
    IF n = 0 THEN { <<>> }
    ELSE LET shorter == SeqsOf(S, n - 1)
         IN shorter \cup { Append(q, x) : q \in { r \in shorter : Len(r) = n - 1 }, x \in S }

Inputs == SeqsOf(Records, MaxRecords)

(***************************************************************************)
(* extract_dataframes as a state machine: one action per block of the      *)
(* function, run twice in succession on the same loaded sequence           *)
(***************************************************************************)
NoTables ==
    [orders |-> <<>>, payment_details |-> <<>>, orderlines |-> <<>>,
     shown_addons |-> <<>>, search_data |-> <<>>, search_orders |-> <<>>,
     search_parameters |-> <<>>]

NoCall == [outcome |-> "none", tables |-> NoTables]

Init ==
    /\ data0 \in Inputs
    /\ data = data0
    /\ pc = "start"
    /\ call = 1
    /\ tables = NoTables
    /\ first = NoCall
    /\ files = <<>> /\ fidx = 0 /\ lines = <<>> /\ lidx = 0
    /\ all_data = <<>> /\ diag = <<>> /\ lpc = "idle"

\* one block: it may write to the orders (which are the objects of the
\* input), it builds one table, and an exception ends the call
Block(at, next, table, r) ==
    /\ pc = at
    /\ data' = PutOrders(data, r.orders)
    /\ IF r.raised
       THEN pc' = "raised" /\ tables' = NoTables
       ELSE pc' = next /\ tables' = [tables EXCEPT ![table] = r.rows]
    /\ UNCHANGED <<data0, call, first>>
    /\ UNCHANGED lvars

SanitizeOrders ==
    /\ pc = "start"
    /\ data' = PutOrders(data, SanitizeStep(OrdersOf(data)).orders)
    /\ pc' = "orders"
    /\ UNCHANGED <<data0, call, first, tables>>
    /\ UNCHANGED lvars

BuildOrders == Block("orders", "payment_details", "orders", OrdersStep(OrdersOf(data)))

BuildPaymentDetails ==
    Block("payment_details", "orderlines", "payment_details", PaymentStep(OrdersOf(data)))

BuildOrderlines ==
    Block("orderlines", "shown_addons", "orderlines", OrderlinesStep(OrdersOf(data)))

BuildShownAddons ==
    Block("shown_addons", "search_data", "shown_addons", ShownAddonsStep(OrdersOf(data)))

BuildSearchData ==
    Block("search_data", "search_orders", "search_data", SearchDataStep(OrdersOf(data)))

BuildSearchOrders ==
    Block("search_orders", "search_parameters", "search_orders", SearchOrdersStep(OrdersOf(data)))

BuildSearchParameters ==
    Block("search_parameters", "return", "search_parameters",
          SearchParametersStep(OrdersOf(data)))

Return ==
    /\ pc = "return"
    /\ pc' = "done"
    /\ UNCHANGED <<data0, data, call, tables, first>>
    /\ UNCHANGED lvars

\* the caller calls extract_dataframes again on the same list
CallAgain ==
    /\ pc \in {"done", "raised"}
    /\ call = 1
    /\ first' = [outcome |-> pc, tables |-> tables]
    /\ call' = 2
    /\ pc' = "start"
    /\ tables' = NoTables
    /\ UNCHANGED <<data0, data>>
    /\ UNCHANGED lvars

Next ==
    \/ SanitizeOrders
    \/ BuildOrders
    \/ BuildPaymentDetails
    \/ BuildOrderlines
    \/ BuildShownAddons
    \/ BuildSearchData
    \/ BuildSearchOrders
    \/ BuildSearchParameters
    \/ Return
    \/ CallAgain

Spec == Init /\ [][Next]_vars

(***************************************************************************)
(* load_json_objects_from_folder                                           *)
(*                                                                         *)
(* A file's text is a sequence of characters over "1" (a digit), "x" (a    *)
(* character no JSON document contains), " " and "\n".  Over this alphabet *)
(* json.loads accepts exactly the lines that are, apart from surrounding   *)
(* spaces, a non-empty run of digits, and returns the number.              *)
(***************************************************************************)
Chars == {"1", "x", " ", "\n"}
Whitespace == {" ", "\n"}

\* str.strip()
RECURSIVE LStrip(_), RStrip(_)
LStrip(t) == IF t # <<>> /\ Head(t) \in Whitespace THEN LStrip(Tail(t)) ELSE t
RStrip(t) ==
    IF t # <<>> /\ t[Len(t)] \in Whitespace THEN RStrip(SubSeq(t, 1, Len(t) - 1))
    ELSE t
Strip(t) == RStrip(LStrip(t))

\* str.splitlines(): no line for an empty text or after a final newline
RECURSIVE SplitLines(_)
SplitLines(t) ==
    IF t = <<>> THEN <<>>
    ELSE IF \E n \in 1..Len(t) : t[n] = "\n"
         THEN LET n == CHOOSE n \in 1..Len(t) :
                         t[n] = "\n" /\ \A m \in 1..(n - 1) : t[m] # "\n"
              IN <<SubSeq(t, 1, n - 1)>> \o SplitLines(SubSeq(t, n + 1, Len(t)))
         ELSE <<t>>

\* json.loads(line) raises
JsonLoadsRaises(line) ==
    \/ Strip(line) = <<>>
    \/ \E n \in 1..Len(Strip(line)) : Strip(line)[n] # "1"

\* json.loads(line): the number the digits denote
RECURSIVE Ones(_)
Ones(n) == IF n = 0 THEN 0 ELSE 10 * Ones(n - 1) + 1
JsonLoads(line) == Ones(Len(Strip(line)))

RECURSIVE TextsOf(_)
TextsOf(n) ==
    IF n = 0 THEN { <<>> }
    ELSE LET shorter == TextsOf(n - 1)
         IN shorter \cup { Append(t, c) : t \in { u \in shorter : Len(u) = n - 1 }, c \in Chars }

\* the folders: no file, one file of at most MaxLen characters, or that file
\* followed by a second, short one
SecondFiles == { <<"1">>, <<"x", "\n", "1", "1">> }
Folders ==
    { <<>> } \cup { <<t>> : t \in TextsOf(MaxLen) }
             \cup { <<t, u>> : t \in TextsOf(MaxLen), u \in SecondFiles }

InitLoad ==
    /\ files \in Folders
    /\ fidx = 1
    /\ lines = <<>> /\ lidx = 0
    /\ all_data = <<>>
    /\ diag = <<>>
    /\ lpc = "glob"
    /\ data0 = <<>> /\ data = <<>> /\ pc = "idle" /\ call = 0
    /\ tables = NoTables /\ first = NoCall

\* with open(file_path) as f: lines = f.read().strip().splitlines()
OpenFile ==
    /\ lpc = "glob"
    /\ fidx <= Len(files)
    /\ lines' = SplitLines(Strip(files[fidx]))
    /\ lidx' = 1
    /\ lpc' = "line"
    /\ UNCHANGED <<files, fidx, all_data, diag>>
    /\ UNCHANGED xvars

\* the append placed after the try statement: a bad line appends too
LineStepAppendAfterTry(line, f, objs, printed) ==
    IF Strip(line) = <<>> THEN [all_data |-> objs, diag |-> printed]
    ELSE IF JsonLoadsRaises(line)
         THEN [all_data |-> Append(objs, 0), diag |-> Append(printed, f)]
         ELSE [all_data |-> Append(objs, JsonLoads(line)), diag |-> printed]

\* what one iteration of the loop over the lines leaves in all_data and in
\* the diagnostics printed so far (each names its file)
LineStep(line, f, objs, printed) ==
    IF Strip(line) = <<>> THEN [all_data |-> objs, diag |-> printed]
    ELSE IF JsonLoadsRaises(line)
         THEN [all_data |-> objs, diag |-> Append(printed, f)]
         ELSE [all_data |-> Append(objs, JsonLoads(line)), diag |-> printed]

Line(blank, bad) ==
    /\ lpc = "line"
    /\ lidx <= Len(lines)
    /\ (Strip(lines[lidx]) = <<>>) = blank
    /\ JsonLoadsRaises(lines[lidx]) = bad
    /\ all_data' = LineStep(lines[lidx], fidx, all_data, diag).all_data
    /\ diag' = LineStep(lines[lidx], fidx, all_data, diag).diag
    /\ lidx' = lidx + 1
    /\ UNCHANGED <<files, fidx, lines, lpc>>
    /\ UNCHANGED xvars

\* if line.strip(): false
SkipBlankLine == Line(TRUE, TRUE)

\* obj = json.loads(line); all_data.append(obj)
ParseLine == Line(FALSE, FALSE)

\* except Exception as e: print(...)
ReportBadLine == Line(FALSE, TRUE)

\* the lines of the file are exhausted: the next file
CloseFile ==
    /\ lpc = "line"
    /\ lidx > Len(lines)
    /\ fidx' = fidx + 1
    /\ lpc' = "glob"
    /\ UNCHANGED <<files, lines, lidx, all_data, diag>>
    /\ UNCHANGED xvars

\* return all_data
ReturnAll ==
    /\ lpc = "glob"
    /\ fidx > Len(files)
    /\ lpc' = "done"
    /\ UNCHANGED <<files, fidx, lines, lidx, all_data, diag>>
    /\ UNCHANGED xvars

NextLoad ==
    \/ OpenFile
    \/ SkipBlankLine
    \/ ParseLine
    \/ ReportBadLine
    \/ CloseFile
    \/ ReturnAll

SpecLoad == InitLoad /\ [][NextLoad]_vars

(***************************************************************************)
(* Properties of extract_dataframes (specification Spec)                   *)
(***************************************************************************)
\* the orders of the input as loaded, before the first call
Orders0 == OrdersOf(data0)

\* the blocks after which a table exists in the running call
AfterOrders == {"payment_details", "orderlines", "shown_addons", "search_data",
                "search_orders", "search_parameters", "return", "done"}
AfterPayment == AfterOrders \ {"payment_details"}

\* the value of a column in a row (null when the row has no such key)
Cell(row, col) == Get(row.rec, col, Null)

RowsFrom(table, i) == { n \in 1..Len(table) : table[n].src = i }

\* C1: in the returned tables every row of payment_details, orderlines and
\* shown_addons has the order_id of the order it was derived from.
C1_OrderIdOfParent ==
    pc = "done" =>
        \A t \in {"payment_details", "orderlines", "shown_addons"} :
            \A n \in 1..Len(tables[t]) :
                Cell(tables[t][n], "order_id") = OrderId(Orders0[tables[t][n].src])

\* C2: in the returned tables every row of search_data, search_orders and
\* search_parameters has a parent_order_id equal to the order_id of the
\* order that owns the search_data.
C2_ParentOrderId ==
    pc = "done" =>
        \A t \in {"search_data", "search_orders", "search_parameters"} :
            \A n \in 1..Len(tables[t]) :
                Cell(tables[t][n], "parent_order_id") = OrderId(Orders0[tables[t][n].src])

\* C3: extract_dataframes never raises, whatever the type of the nested
\* structures.
C3_NeverRaises == pc # "raised"

\* C4: the returned shown_addons table has one row for each order whose
\* shown_addons is an object and none for any other order.
C4_ShownAddonsRows ==
    pc = "done" =>
        \A i \in 1..Len(Orders0) :
            Cardinality(RowsFrom(tables.shown_addons, i)) =
                IF Has(Orders0[i], "shown_addons")
                   /\ IsDict(Get(Orders0[i], "shown_addons", Null))
                THEN 1 ELSE 0

\* C5: the returned search_data table has one row for each order whose
\* search_data is an object and none for any other order.
C5_SearchDataRows ==
    pc = "done" =>
        \A i \in 1..Len(Orders0) :
            Cardinality(RowsFrom(tables.search_data, i)) =
                IF Has(Orders0[i], "search_data")
                   /\ IsDict(Get(Orders0[i], "search_data", Null))
                THEN 1 ELSE 0

\* C6: once built, the payment_details table has exactly one row per order
\* (per input object with a _source key), in the order of the input,
\* whatever the type of the order's payment_details.
C6_OnePaymentRowPerOrder ==
    pc \in AfterPayment =>
        /\ Len(tables.payment_details) = Cardinality({ i \in 1..Len(data0) : Has(data0[i], "_source") })
        /\ \A n \in 1..Len(tables.payment_details) : tables.payment_details[n].src = n

C6_Witness ==
    /\ pc = "done"
    /\ Len(tables.payment_details) = 2
    /\ ~Has(Orders0[1], "payment_details")
    /\ Has(Orders0[2], "payment_details")
    /\ ~IsDict(Get(Orders0[2], "payment_details", Null))

\* C7: once built, the orders table has no column whose name starts with
\* "payment_details.", "orderlines.", "shown_addons." or "search_data.",
\* and it has a column named exactly after each of these four keys that
\* some order holds with a value that is not an object.
C7_NestedColumnsDropped ==
    pc \in AfterOrders =>
        /\ \A col \in ColumnsOf(tables.orders) :
              \A n \in 1..Len(nested_keys) :
                  ~(Len(col) >= 2 /\ col[1] = nested_keys[n] /\ col[2] = ".")
        /\ \A i \in 1..Len(Orders0) :
              \A n \in 1..Len(nested_keys) :
                  (Has(Orders0[i], nested_keys[n])
                     /\ ~IsDict(Get(Orders0[i], nested_keys[n], Null)))
                  => /\ <<nested_keys[n]>> \in ColumnsOf(tables.orders)
                     /\ Get(tables.orders[i].rec, <<nested_keys[n]>>, EmptyDict)
                          = Get(Orders0[i], nested_keys[n], Null)

C7_Witness ==
    /\ pc = "done"
    /\ \E i, j \in 1..Len(Orders0) :
          /\ Has(Orders0[i], "payment_details")
          /\ ~IsDict(Get(Orders0[i], "payment_details", Null))
          /\ Get(Get(Orders0[j], "payment_details", Null), "method", Null) # Null
    /\ <<"payment_details">> \in ColumnsOf(tables.orders)
    /\ <<"order_id">> \in ColumnsOf(tables.orders)

\* C8: a second call on the same loaded sequence, as the first call left
\* it, ends as the first did and returns seven tables identical to the
\* first call's.
C8_SecondCallSameTables ==
    (call = 2 /\ pc \in {"done", "raised"}) =>
        /\ first.outcome = pc
        /\ first.tables = tables

C8_Witness ==
    /\ call = 2
    /\ pc = "done"
    /\ data # data0
    /\ Len(tables.search_data) > 0
    /\ Len(tables.search_parameters) > 0

WithoutMetaClickInfo(ds) ==
    [i \in 1..Len(ds) |->
        LET src == Get(ds[i], "_source", Null)
            sd == Get(src, "search_data", Null)
        IN IF Has(ds[i], "_source") /\ Has(src, "search_data") /\ sd.k = "dict"
           THEN SetItem(ds[i], "_source",
                    SetItem(src, "search_data",
                        Dict(SelectSeq(sd.d, LAMBDA p : p[1] # "meta_click_info"))))
           ELSE ds[i]]

RECURSIVE Pieces(_)
Pieces(t) ==
    IF \E n \in 1..Len(t) : t[n] = "\n"
    THEN LET n == CHOOSE n \in 1..Len(t) :
                    t[n] = "\n" /\ \A m \in 1..(n - 1) : t[m] # "\n"
         IN <<SubSeq(t, 1, n - 1)>> \o Pieces(SubSeq(t, n + 1, Len(t)))
    ELSE <<t>>

NonBlank(line) == \E n \in 1..Len(line) : line[n] # " "
Parses(line) == NonBlank(line) /\ ~JsonLoadsRaises(line)
Fails(line) == NonBlank(line) /\ JsonLoadsRaises(line)

\* the objects of the lines of a file that parse, in file order
ObjectsOf(t) ==
    LET good == SelectSeq(Pieces(t), Parses)
    IN [n \in 1..Len(good) |-> JsonLoads(good[n])]

\* one entry, naming the file, for each line of the file that fails
DiagnosticsOf(t, f) ==
    LET bad == SelectSeq(Pieces(t), Fails)
    IN [n \in 1..Len(bad) |-> f]

\* C10: when the load returns, all_data holds exactly one object for each
\* non-blank line that parses, in file order, and exactly one diagnostic
\* was printed for each non-blank line that does not parse; a bad line does
\* not stop the lines and files after it.
C10_LinesIndependent ==
    lpc = "done" =>
        /\ all_data = Flat([f \in 1..Len(files) |-> ObjectsOf(files[f])])
        /\ diag = Flat([f \in 1..Len(files) |-> DiagnosticsOf(files[f], f)])

C10_Witness ==
    /\ lpc = "done"
    /\ files = << <<"1", "\n", "x", "\n", "1">>, <<"x", "\n", "1", "1">> >>
    /\ all_data = <<1, 1, 11>>
    /\ diag = <<1, 2>>

====
